---- MODULE Spec2Model ----
(***************************************************************************)
(* Model of mars/tensor/expressions/linalg/qr.py: the logical QR operand   *)
(* TensorQR, its call boundary (__call__) and its tiling pass (tile).      *)
(* The tall-skinny tree builder TSQR.tile that tile delegates to lives in  *)
(* linalg/core.py; it is modelled from the design document (sections 4.3   *)
(* to 4.5).                                                                *)
(***************************************************************************)
EXTENDS Integers, Sequences, FiniteSets, TLC

\* ------------------------------------------------------------------ bounds
MaxNdim == 3
MaxDim == 5
MaxGroup == 3

Methods == {"tsqr", "sfqr", "none"}
Dtypes == {"int64", "float32"}

VARIABLES a, gsize, ops, tensors, chunks, nextKey, probe, err, result,
          trace, pc, nodes, level

vars == <<a, gsize, ops, tensors, chunks, nextKey, probe, err, result,
          trace, pc, nodes, level>>

\* ----------------------------------------------------------------- helpers
Last(s) == s[Len(s)]

Min(i, j) == IF i < j THEN i ELSE j

NoErr == [kind |-> "none", ndim |-> 0]

\* The chunk grids an input of the given shape can carry.  A rank-2 input
\* has between one and extent-many chunks on each axis; the grid of an input
\* of any other rank is never read, and is drawn unsplit.
Grids(s) ==
    IF Len(s) = 2
    THEN {c \in [1..2 -> 1..MaxDim] : \A i \in 1..2 : c[i] <= s[i]}
    ELSE {[i \in 1..Len(s) |-> 1]}

\* Row extents of the k row-blocks of an x-row matrix: equal blocks, the last
\* one takes what is left.
RowSplit(x, k) ==
    [i \in 1..k |-> IF i < k THEN x \div k ELSE x - (k - 1) * (x \div k)]

\* np.linalg.qr(np.ones((1, 1), dtype=a.dtype)): integers promote to float64,
\* floating types are kept.
QRDtype(d) == IF d = "int64" THEN "float64" ELSE d

\* variant of QShape: the comparison reversed
QShapeSwapped(x, y) == IF x < y THEN <<x, y>> ELSE <<x, x>>
\* q_shape = a.shape if x > y else (x, x)
QShape(x, y) == IF x > y THEN <<x, y>> ELSE <<x, x>>

\* r_shape = a.shape if x < y else (y, y)
RShape(x, y) == IF x < y THEN <<x, y>> ELSE <<y, y>>

\* variant of IsSingleBlock: only the row axis compared
IsSingleBlockRowsOnly(cs) == cs[1] = 1
\* in_tensor.chunk_shape == (1, 1)
IsSingleBlock(cs) == cs = <<1, 1>>

\* variant of MethodSupported: the method never looked at
AnyMethodSupported(m) == TRUE
\* op.method == 'tsqr'
MethodSupported(m) == m = "tsqr"

\* variant of ChunkShapes: the two shapes exchanged
ChunkShapesSwapped(qs, rs) == <<rs, qs>>
\* the shapes handed to chunk_op.new_chunks: (q_shape, r_shape)
ChunkShapes(qs, rs) == <<qs, rs>>

\* variant of CopyTarget: the copy is the operand itself
CopyAliased(opid, n) == opid
\* op.copy() is a new operand object: the next free slot of the arena
CopyTarget(opid, n) == n + 1

\* store an operand record at slot id of the arena
PutOp(s, id, rec) ==
    IF id = Len(s) + 1 THEN Append(s, rec) ELSE [s EXCEPT ![id] = rec]

TensorRef == [kind |-> "tensor", index |-> <<>>]
ChunkRef(idx) == [kind |-> "chunk", index |-> idx]

\* ------------------------------------------------------------------- Init
\* qr(a, method): op = TensorQR(method=method); the operand exists, has no
\* inputs or outputs yet, and op(a) has not run.
Init ==
    /\ \E n \in 1..MaxNdim : \E s \in [1..n -> 1..MaxDim] :
         \E c \in Grids(s) : \E d \in Dtypes :
           a = [ndim |-> n, shape |-> s, chunk_shape |-> c, dtype |-> d]
    /\ gsize \in 2..MaxGroup
    /\ \E m \in Methods :
         ops = << [key |-> 1, method |-> m, inputs |-> <<>>, outputs |-> <<>>] >>
    /\ tensors = <<>>
    /\ chunks = <<>>
    /\ nextKey = 2
    /\ probe = <<>>
    /\ err = NoErr
    /\ result = <<>>
    /\ trace = <<"Requested">>
    /\ pc = "call"
    /\ nodes = <<>>
    /\ level = <<>>

\* --------------------------------------------------------------- __call__
\* variant of Call: the dtype probe runs before the rank check
CallProbeFirst ==
    /\ pc = "call"
    /\ probe' = <<QRDtype(a.dtype), QRDtype(a.dtype)>>
    /\ IF a.ndim # 2
       THEN /\ err' = [kind |-> "LinAlgError", ndim |-> a.ndim]
            /\ trace' = Append(trace, "FailedDimensionError")
            /\ pc' = "done"
            /\ UNCHANGED <<ops, tensors>>
       ELSE /\ tensors' =
                 << [op |-> 1, shape |-> QShape(a.shape[1], a.shape[2]),
                     dtype |-> QRDtype(a.dtype), side |-> "q",
                     nsplits |-> <<>>, chunks |-> <<>>],
                    [op |-> 1, shape |-> RShape(a.shape[1], a.shape[2]),
                     dtype |-> QRDtype(a.dtype), side |-> "r",
                     nsplits |-> <<>>, chunks |-> <<>>] >>
            /\ ops' = [ops EXCEPT ![1].inputs = <<TensorRef>>,
                                  ![1].outputs = <<1, 2>>]
            /\ trace' = Append(trace, "ShapeResolved")
            /\ pc' = "tile"
            /\ err' = err
    /\ UNCHANGED <<a, gsize, chunks, nextKey, result, nodes, level>>

\* TensorQR.__call__(a): the rank check, then the dtype probe, then the
\* output shapes and the two output tensors made by self.new_tensors.
Call ==
    /\ pc = "call"
    /\ IF a.ndim # 2
       THEN /\ err' = [kind |-> "LinAlgError", ndim |-> a.ndim]
            /\ trace' = Append(trace, "FailedDimensionError")
            /\ pc' = "done"
            /\ UNCHANGED <<ops, tensors, probe>>
       ELSE LET x == a.shape[1]
                y == a.shape[2]
                tiny == <<QRDtype(a.dtype), QRDtype(a.dtype)>>
            IN  /\ probe' = tiny
                /\ tensors' =
                     << [op |-> 1, shape |-> QShape(x, y), dtype |-> tiny[1],
                         side |-> "q", nsplits |-> <<>>, chunks |-> <<>>],
                        [op |-> 1, shape |-> RShape(x, y), dtype |-> tiny[2],
                         side |-> "r", nsplits |-> <<>>, chunks |-> <<>>] >>
                /\ ops' = [ops EXCEPT ![1].inputs = <<TensorRef>>,
                                      ![1].outputs = <<1, 2>>]
                /\ trace' = Append(trace, "ShapeResolved")
                /\ pc' = "tile"
                /\ err' = err
    /\ UNCHANGED <<a, gsize, chunks, nextKey, result, nodes, level>>

\* ------------------------------------------------------------------- tile
\* The single-chunk branch of tile: chunk_op = op.copy().reset_key() makes the
\* q and r chunks on the input's only chunk; new_op = op.copy() makes the two
\* result tensors, each holding its one chunk.
TileSingleBlock ==
    /\ pc = "tile"
    /\ IsSingleBlock(a.chunk_shape)
    /\ LET op == ops[1]
           q == tensors[op.outputs[1]]
           r == tensors[op.outputs[2]]
           in_index == <<0, 0>>
           shapes == ChunkShapes(q.shape, r.shape)
           chunk_id == CopyTarget(1, Len(ops))
           chunk_op == [op EXCEPT !.key = nextKey,
                                  !.inputs = <<ChunkRef(in_index)>>,
                                  !.outputs = <<Len(chunks) + 1, Len(chunks) + 2>>]
           ops1 == PutOp(ops, chunk_id, chunk_op)
           new_id == CopyTarget(1, Len(ops1))
           new_op == [ops1[1] EXCEPT !.inputs = op.inputs,
                                     !.outputs = <<Len(tensors) + 1, Len(tensors) + 2>>]
       IN  /\ ops' = PutOp(ops1, new_id, new_op)
           /\ nextKey' = nextKey + 1
           /\ chunks' = chunks \o
                << [op |-> chunk_id, shape |-> shapes[1], side |-> "q",
                    index |-> in_index],
                   [op |-> chunk_id, shape |-> shapes[2], side |-> "r",
                    index |-> in_index] >>
           /\ tensors' = tensors \o
                << [op |-> new_id, shape |-> q.shape, dtype |-> q.dtype,
                    side |-> "q", nsplits |-> << <<1>>, <<1>> >>,
                    chunks |-> <<Len(chunks) + 1>>],
                   [op |-> new_id, shape |-> r.shape, dtype |-> r.dtype,
                    side |-> "r", nsplits |-> << <<1>>, <<1>> >>,
                    chunks |-> <<Len(chunks) + 2>>] >>
           /\ result' = <<Len(tensors) + 1, Len(tensors) + 2>>
    /\ trace' = trace \o <<"SingleBlock", "Assembled">>
    /\ pc' = "done"
    /\ UNCHANGED <<a, gsize, probe, err, nodes, level>>

\* elif op.method == 'tsqr': return super(TensorQR, cls).tile(op)
TileDelegate ==
    /\ pc = "tile"
    /\ ~IsSingleBlock(a.chunk_shape)
    /\ MethodSupported(ops[1].method)
    /\ pc' = "tsqr"
    /\ UNCHANGED <<a, gsize, ops, tensors, chunks, nextKey, probe, err,
                   result, trace, nodes, level>>

\* variant of TileUnsupported: the else branch returns without raising
TileUnsupportedSilent ==
    /\ pc = "tile"
    /\ ~IsSingleBlock(a.chunk_shape)
    /\ ~MethodSupported(ops[1].method)
    /\ pc' = "done"
    /\ UNCHANGED <<a, gsize, ops, tensors, chunks, nextKey, probe, err,
                   result, trace, nodes, level>>

\* else: raise NotImplementedError('Only tsqr method supported for now')
TileUnsupported ==
    /\ pc = "tile"
    /\ ~IsSingleBlock(a.chunk_shape)
    /\ ~MethodSupported(ops[1].method)
    /\ err' = [kind |-> "NotImplementedError", ndim |-> 0]
    /\ trace' = Append(trace, "FailedUnsupportedMethodError")
    /\ pc' = "done"
    /\ UNCHANGED <<a, gsize, ops, tensors, chunks, nextKey, probe, result,
                   nodes, level>>

\* TensorQR.tile(op)
Tile == TileSingleBlock \/ TileDelegate \/ TileUnsupported

\* -------------------------------------------------------------- TSQR.tile
\* The tree builder of linalg/core.py, after sections 4.3 to 4.5 of the
\* design: leaves, reduction levels, back-substitution, assembly.

Leaf(i) == [kind |-> "leaf", children |-> <<>>, block |-> i]
Merge(cs) == [kind |-> "merge", children |-> cs, block |-> -1]

\* One reduction level over the R factors lv with group size g: full groups
\* are cut greedily from the left, each becomes a merge node (numbered from
\* n + 1), and what is left over is carried, unmerged, behind them.  A level
\* shorter than g is merged at once.
\* variant of GroupSize: a short level is not merged at once
GroupSizeUnclamped(lv, g) == g
GroupSize(lv, g) == Min(g, Len(lv))

GroupsOf(lv, g) ==
    LET e == GroupSize(lv, g)
        nfull == Len(lv) \div e
    IN  [i \in 1..nfull |-> SubSeq(lv, (i - 1) * e + 1, i * e)]

\* variant of NextLevel: the remainder is put in front of the merges
RemainderFirst(lv, g, n) ==
    LET e == GroupSize(lv, g)
        nfull == Len(lv) \div e
    IN  SubSeq(lv, nfull * e + 1, Len(lv)) \o [i \in 1..nfull |-> n + i]
NextLevel(lv, g, n) ==
    LET e == GroupSize(lv, g)
        nfull == Len(lv) \div e
    IN  [i \in 1..nfull |-> n + i] \o SubSeq(lv, nfull * e + 1, Len(lv))

\* Step 1: a multi-column-block partition is rejected; otherwise one local
\* factor node per row-block, in block order.
TSQRLeaves ==
    /\ pc = "tsqr"
    /\ IF a.chunk_shape[2] # 1
       THEN /\ err' = [kind |-> "NotImplementedError", ndim |-> 0]
            /\ trace' = Append(trace, "FailedUnsupportedMethodError")
            /\ pc' = "done"
            /\ UNCHANGED <<nodes, level>>
       ELSE /\ nodes' = [i \in 1..a.chunk_shape[1] |-> Leaf(i - 1)]
            /\ level' = [i \in 1..a.chunk_shape[1] |-> i]
            /\ pc' = "reduce"
            /\ UNCHANGED <<err, trace>>
    /\ UNCHANGED <<a, gsize, ops, tensors, chunks, nextKey, probe, result>>

\* Steps 2 and 3: one reduction level; the tree is built when one R is left.
TSQRReduce ==
    /\ pc = "reduce"
    /\ Len(level) > 1
    /\ LET gs == GroupsOf(level, gsize)
       IN  /\ nodes' = nodes \o [i \in 1..Len(gs) |-> Merge(gs[i])]
           /\ level' = NextLevel(level, gsize, Len(nodes))
    /\ IF Len(level') = 1
       THEN /\ trace' = Append(trace, "TreeBuilt")
            /\ pc' = "backsub"
       ELSE UNCHANGED <<trace, pc>>
    /\ UNCHANGED <<a, gsize, ops, tensors, chunks, nextKey, probe, err, result>>

\* Section 4.4: one final Q chunk per leaf block, in block order.
TSQRBackSubstitute ==
    /\ pc = "backsub"
    /\ LET k == a.chunk_shape[1]
           q == tensors[ops[1].outputs[1]]
           rows == RowSplit(a.shape[1], k)
       IN  /\ ops' = Append(ops, [ops[1] EXCEPT !.key = nextKey,
                                    !.inputs = [i \in 1..k |-> ChunkRef(<<i - 1, 0>>)],
                                    !.outputs = [i \in 1..k |-> Len(chunks) + i]])
           /\ chunks' = chunks \o
                [i \in 1..k |-> [op |-> Len(ops) + 1,
                                 shape |-> <<rows[i], q.shape[2]>>,
                                 side |-> "q", index |-> <<i - 1, 0>>]]
    /\ nextKey' = nextKey + 1
    /\ trace' = Append(trace, "BackSubstituted")
    /\ pc' = "assemble"
    /\ UNCHANGED <<a, gsize, tensors, probe, err, result, nodes, level>>

\* Section 4.5: the Q chunks in block order and the root R as the sole chunk
\* of R, on a copy of the operand, with the shapes and dtypes of the request.
TSQRAssemble ==
    /\ pc = "assemble"
    /\ LET k == a.chunk_shape[1]
           q == tensors[ops[1].outputs[1]]
           r == tensors[ops[1].outputs[2]]
           new_id == Len(ops) + 1
           r_id == Len(chunks) + 1
       IN  /\ chunks' = Append(chunks, [op |-> Len(ops), shape |-> r.shape,
                                        side |-> "r", index |-> <<0, 0>>])
           /\ ops' = Append(ops, [ops[1] EXCEPT
                                    !.outputs = <<Len(tensors) + 1, Len(tensors) + 2>>])
           /\ tensors' = tensors \o
                << [op |-> new_id, shape |-> q.shape, dtype |-> q.dtype,
                    side |-> "q",
                    nsplits |-> <<RowSplit(a.shape[1], k), <<q.shape[2]>> >>,
                    chunks |-> [i \in 1..k |-> Len(chunks) - k + i]],
                   [op |-> new_id, shape |-> r.shape, dtype |-> r.dtype,
                    side |-> "r",
                    nsplits |-> << <<r.shape[1]>>, <<r.shape[2]>> >>,
                    chunks |-> <<r_id>>] >>
           /\ result' = <<Len(tensors) + 1, Len(tensors) + 2>>
    /\ trace' = Append(trace, "Assembled")
    /\ pc' = "done"
    /\ UNCHANGED <<a, gsize, nextKey, probe, err, nodes, level>>

\* ------------------------------------------------------------ specification
Next ==
    \/ Call
    \/ Tile
    \/ TSQRLeaves
    \/ TSQRReduce
    \/ TSQRBackSubstitute
    \/ TSQRAssemble

Spec == Init /\ [][Next]_vars

\* __call__ and tile are synchronous: a request that can take a step takes it.
FairSpec == Spec /\ WF_vars(Next)

\* ------------------------------------------------------------------ claims
Called == pc # "call"

Rank2 == a.ndim = 2

Range(f) == {f[i] : i \in DOMAIN f}

\* C1: for every rank-2 input of shape (x, y) the request declares Q and R by
\* the tall / wide / square rule: x > y gives Q (x, y) and R (y, y); x < y
\* gives Q (x, x) and R (x, y); x = y gives Q (x, x) and R (y, y).
C1_ShapeRule ==
    (Rank2 /\ Called) =>
        LET x == a.shape[1]
            y == a.shape[2]
        IN  /\ ops[1].outputs = <<1, 2>>
            /\ tensors[1].side = "q" /\ tensors[2].side = "r"
            /\ x > y => tensors[1].shape = <<x, y>> /\ tensors[2].shape = <<y, y>>
            /\ x < y => tensors[1].shape = <<x, x>> /\ tensors[2].shape = <<x, y>>
            /\ x = y => tensors[1].shape = <<x, x>> /\ tensors[2].shape = <<y, y>>

C1_Witness ==
    /\ Rank2 /\ Called
    /\ a.shape[1] < a.shape[2]
    /\ tensors[2].shape = a.shape

\* C2: a request on an input whose rank is not 2 fails with the dimension
\* error carrying the actual rank, before the dtype probe, before any output
\* tensor is made, and tile is never reached.
C2_RankError ==
    (~Rank2 /\ Called) =>
        /\ err = [kind |-> "LinAlgError", ndim |-> a.ndim]
        /\ probe = <<>>
        /\ tensors = <<>> /\ chunks = <<>> /\ nodes = <<>>
        /\ ops = << [key |-> 1, method |-> ops[1].method,
                     inputs |-> <<>>, outputs |-> <<>>] >>
        /\ result = <<>>
        /\ pc = "done"
        /\ trace = <<"Requested", "FailedDimensionError">>

C2_Witness == a.ndim = 3 /\ err = [kind |-> "LinAlgError", ndim |-> 3]

Tiled == pc = "done" /\ Rank2

Unsupported ==
    /\ err.kind = "NotImplementedError"
    /\ result = <<>>
    /\ Len(tensors) = 2 /\ chunks = <<>> /\ nodes = <<>>
    /\ Len(ops) = 1

\* C3 as stated: whatever the partition, a method other than 'tsqr' makes
\* tile fail with the unsupported-method error and produce no result tensors.
C3_AnyPartition ==
    (Tiled /\ ops[1].method # "tsqr") => Unsupported

\* C3 as amended: a method other than 'tsqr' makes tile fail with the
\* unsupported-method error, producing no result tensors, on every partition
\* that is not the single block (1, 1).
C3_MultiBlock ==
    (Rank2 /\ pc \notin {"call", "tile"} /\ ops[1].method # "tsqr"
       /\ a.chunk_shape # <<1, 1>>) => (pc = "done" /\ Unsupported)

C3_Witness ==
    /\ Tiled /\ ops[1].method = "sfqr"
    /\ a.chunk_shape = <<2, 1>>
    /\ err.kind = "NotImplementedError"

\* C4: with method 'tsqr', a partition with two or more column-blocks makes
\* tile fail with the unsupported-method error; no merge tree is built.
C4_ShortAndFat ==
    (Rank2 /\ pc \notin {"call", "tile", "tsqr"} /\ ops[1].method = "tsqr"
       /\ a.chunk_shape[2] >= 2) => (pc = "done" /\ Unsupported)

C4_Witness ==
    /\ Tiled /\ ops[1].method = "tsqr"
    /\ a.chunk_shape = <<1, 2>>
    /\ err.kind = "NotImplementedError"

ChunkOps ==
    {i \in DOMAIN ops : ops[i].inputs # <<>> /\ ops[i].inputs[1].kind = "chunk"}

\* C5: on the single-block partition (1, 1) tile makes exactly one chunk
\* operation, consuming that block, and no merge node; the Q and the R
\* returned each hold exactly one chunk, of the full shape the request
\* declared, with nsplits ((1,), (1,)) and the dtype of the requested output.
C5_SingleBlock ==
    (Tiled /\ a.chunk_shape = <<1, 1>>) =>
        /\ err = NoErr
        /\ Cardinality(ChunkOps) = 1
        /\ \A i \in ChunkOps : ops[i].inputs = <<ChunkRef(<<0, 0>>)>>
        /\ nodes = <<>>
        /\ Len(result) = 2
        /\ \A j \in 1..2 :
             LET t == tensors[result[j]]
                 want == tensors[ops[1].outputs[j]]
             IN  /\ Len(t.chunks) = 1
                 /\ chunks[t.chunks[1]].shape = want.shape
                 /\ chunks[t.chunks[1]].side = want.side
                 /\ chunks[t.chunks[1]].op \in ChunkOps
                 /\ t.shape = want.shape
                 /\ t.side = want.side
                 /\ t.nsplits = << <<1>>, <<1>> >>
                 /\ t.dtype = want.dtype
                 /\ t.dtype = QRDtype(a.dtype)

C5_Witness ==
    /\ Tiled /\ a.chunk_shape = <<1, 1>>
    /\ a.shape = <<3, 2>>
    /\ Len(result) = 2
    /\ chunks[tensors[result[1]].chunks[1]].shape = <<3, 2>>
    /\ chunks[tensors[result[2]].chunks[1]].shape = <<2, 2>>

Terminal(p) ==
    p \in {"Assembled", "FailedDimensionError", "FailedUnsupportedMethodError"}

Allowed(p, q) ==
    \/ p = "Requested" /\ q \in {"ShapeResolved", "FailedDimensionError"}
    \/ p = "ShapeResolved"
         /\ q \in {"SingleBlock", "TreeBuilt", "FailedUnsupportedMethodError"}
    \/ p = "SingleBlock" /\ q = "Assembled"
    \/ p = "TreeBuilt" /\ q = "BackSubstituted"
    \/ p = "BackSubstituted" /\ q = "Assembled"

TraceOK ==
    /\ trace[1] = "Requested"
    /\ \A i \in 1..(Len(trace) - 1) : Allowed(trace[i], trace[i + 1])

TraceGrows ==
    /\ Len(trace') >= Len(trace)
    /\ SubSeq(trace', 1, Len(trace)) = trace
    /\ Terminal(Last(trace)) => trace' = trace

\* C6: the phases a request goes through follow Requested -> ShapeResolved ->
\* {SingleBlock | TreeBuilt} -> BackSubstituted -> Assembled: BackSubstituted
\* only right after TreeBuilt, the dimension error only from Requested, the
\* unsupported-method error only from ShapeResolved, no step out of a terminal
\* phase, and every request ends in Assembled or in one of the two failures.
C6_StateMachine ==
    /\ []TraceOK
    /\ [][TraceGrows]_vars
    /\ <>Terminal(Last(trace))

C6_Witness ==
    trace = <<"Requested", "ShapeResolved", "TreeBuilt", "BackSubstituted",
              "Assembled">>

RECURSIVE LeavesOf(_), LeavesOfSeq(_)
\* the blocks under node n, read left to right
LeavesOf(n) ==
    IF nodes[n].kind = "leaf" THEN <<nodes[n].block>>
    ELSE LeavesOfSeq(nodes[n].children)
LeavesOfSeq(ns) ==
    IF ns = <<>> THEN <<>> ELSE LeavesOf(Head(ns)) \o LeavesOfSeq(Tail(ns))

Blocks == [i \in 1..a.chunk_shape[1] |-> i - 1]

InTree == nodes # <<>>

Consecutive(s) == \A j \in 1..(Len(s) - 1) : s[j + 1] = s[j] + 1

OrderKept ==
    InTree =>
        /\ LeavesOfSeq(level) = Blocks
        /\ \A n \in DOMAIN nodes : Consecutive(LeavesOf(n))
        /\ (Len(level) = 1 => LeavesOf(level[1]) = Blocks)

\* one reduction step: the groups are cut from the left of the level in runs
\* of the group size (the whole level when it is shorter), every run becomes
\* one new merge node with its members in level order, and the members left
\* over stay, in their order, behind the new nodes.
GreedyStep ==
    (pc = "reduce" /\ level' # level) =>
        LET e == IF Len(level) < gsize THEN Len(level) ELSE gsize
            made == Len(nodes') - Len(nodes)
        IN  /\ made = Len(level) \div e
            /\ SubSeq(nodes', 1, Len(nodes)) = nodes
            /\ \A j \in 1..made :
                 /\ nodes'[Len(nodes) + j].kind = "merge"
                 /\ nodes'[Len(nodes) + j].children
                      = SubSeq(level, (j - 1) * e + 1, j * e)
                 /\ level'[j] = Len(nodes) + j
            /\ Len(level') = made + (Len(level) - made * e)
            /\ \A j \in 1..(Len(level) - made * e) :
                 level'[made + j] = level[made * e + j]

\* C8: in the merge tree of a multi-block tall-skinny input the R factors
\* stacked into every merge node are in ascending block order at every level,
\* groups are cut greedily from the left, a remainder is carried to the next
\* level in its place, and so the leaves under the root are blocks 0..k-1 in
\* order.
C8_BlockOrder ==
    /\ []OrderKept
    /\ [][GreedyStep]_vars

C8_Witness ==
    /\ a.chunk_shape = <<5, 1>> /\ gsize = 2
    /\ pc = "backsub"
    /\ Len(nodes) = 9
    /\ LeavesOf(level[1]) = <<0, 1, 2, 3, 4>>
    /\ nodes[level[1]].children = <<8, 5>>

Parents(n) == {m \in DOMAIN nodes : n \in Range(nodes[m].children)}

TreeShape ==
    InTree =>
        /\ \A n \in DOMAIN nodes :
             /\ n \in Range(level) => Parents(n) = {}
             /\ n \notin Range(level) => Cardinality(Parents(n)) = 1
             /\ \A c \in Range(nodes[n].children) : c < n
             /\ nodes[n].kind = "merge" =>
                  /\ Len(nodes[n].children) >= 2
                  /\ Cardinality(Range(nodes[n].children))
                       = Len(nodes[n].children)
             /\ nodes[n].kind = "leaf" => nodes[n].children = <<>>
        /\ Cardinality(Range(level)) = Len(level)
        /\ Len(level) >= 1

RootIsR ==
    (InTree /\ pc \in {"backsub", "assemble", "done"}) =>
        /\ Len(level) = 1
        /\ nodes[level[1]].kind = "merge"
        /\ (pc = "done" =>
              LET r == tensors[result[2]]
              IN  /\ r.side = "r"
                  /\ Len(r.chunks) = 1
                  /\ chunks[r.chunks[1]].shape = r.shape
                  /\ r.shape = tensors[ops[1].outputs[2]].shape)

\* C9: for every block count k >= 2 the reduction ends with exactly one R
\* factor, which becomes the sole, unsplit chunk of the global R; the nodes
\* form an acyclic tree in which every node but the root has exactly one
\* parent and every merge node has at least two children.
C9_OneRoot ==
    /\ [](TreeShape /\ RootIsR)
    /\ (pc = "reduce") ~> (pc = "backsub" /\ Len(level) = 1)

C9_Witness ==
    /\ a.chunk_shape = <<3, 1>> /\ gsize = 2
    /\ pc = "done" /\ Len(result) = 2
    /\ nodes[level[1]].children = <<4, 3>>
    /\ Len(tensors[result[2]].chunks) = 1

Built ==
    /\ \A i \in 3..Len(tensors) : tensors[i].op # 1
    /\ \A i \in DOMAIN chunks :
         /\ chunks[i].op # 1
         /\ ops[chunks[i].op].key # ops[1].key
    /\ (result # <<>> => \A j \in 1..2 : result[j] \notin Range(ops[1].outputs))

\* C10: tile leaves its argument alone on every path: the operand, its
\* method, its input and partition and its two original output descriptors
\* are the same after every step of tiling, and the chunks and result tensors
\* are made on copies of the operand (the chunk-level copy under a new key),
\* never on the operand itself.
C10_Frame ==
    [][Called =>
         /\ ops'[1] = ops[1]
         /\ a' = a
         /\ SubSeq(tensors', 1, 2) = SubSeq(tensors, 1, 2)
         /\ Built']_vars

C10_Witness ==
    /\ Tiled /\ a.chunk_shape = <<1, 1>>
    /\ Len(ops) = 3
    /\ ops[1].outputs = <<1, 2>>
    /\ result = <<3, 4>>
    /\ ops[2].key # ops[1].key
    /\ ops[3].key = ops[1].key

====
